---- MODULE Spec2Model ----
(***************************************************************************)
(* Model of the code-migration demo: the coordinator (server/coordinator), *)
(* its migration transaction, the task recovery manager, the code registry *)
(* checkpoint store, and the worker client with its execution runtime.     *)
(*                                                                         *)
(* The coordinator is a single-threaded event loop: every handler below is *)
(* one atomic action that runs up to the handler's next real suspension    *)
(* (a timer or an awaited message); promise continuations (microtasks) run *)
(* inside the action that settles the promise.                             *)
(*                                                                         *)
(* Each worker process talks to the coordinator over one ordered           *)
(* connection, modelled as a FIFO queue per direction.  Messages emitted   *)
(* on a closed connection are dropped.                                     *)
(***************************************************************************)
EXTENDS Integers, Sequences, FiniteSets, TLC

\* ---------------------------------------------------------------- bounds
\* Worker processes and task ids of the scenario.  The workers of Pool
\* connect in every scenario, the third one in the chain scenario only.
Nodes == {"w1", "w2", "w3"}
Pool == {"w1", "w2"}
\* The task of Jobs is submitted in every scenario, the second one in the
\* scenario of two tasks only.
TaskIds == {"t1", "t2"}
Jobs == {"t1"}
\* endAt of the counting task (DEMO_TASK_TOTAL_STEPS, scaled down).
TotalSteps == 2
\* checkpointConfig.intervalSteps (CHECKPOINT_INTERVAL_STEPS, scaled down).
IntervalSteps == 1
\* migration:request messages that pass the existence checks.
MaxMig == 2
\* checkpoints kept per task in the registry history.
MaxHist == 2
\* messages in flight per connection and direction.
MaxQ == 2
\* execution runtimes alive at once in one worker process.
MaxRt == 2
\* checkpoint:saved messages sent by clients other than the workers.
MaxExt == 1
\* node failures (connection drops and heartbeat expiries).
MaxFail == 2
\* ids made by generateId for code bundles (the two default bundles included).
MaxBundles == 4
\* samples expected in one auto-migration window
\* (AUTO_MIGRATION_DURATION_MS / HEARTBEAT_INTERVAL, scaled down).
ExpectedSamples == 2

None == "none"
MigIds == 1..MaxMig
RtIds == 1..MaxRt

\* ------------------------------------------------------------ checkpoints
NoChecksum == <<>>
NoCp ==
  [taskId |-> None, currentStep |-> 0, totalSteps |-> 0, variables |-> 0,
   sourceNodeId |-> None, checksum |-> NoChecksum]

\* The checksum over the checkpoint's content: the canonical form of
\* {taskId, currentStep, totalSteps, variables}.
calculateCheckpointChecksum(cp) ==
  <<cp.taskId, cp.currentStep, cp.totalSteps, cp.variables>>

\* createCheckpoint: no checksum field is set.
createCheckpoint(taskId, currentStep, totalSteps, variables, sourceNodeId) ==
  [taskId |-> taskId, currentStep |-> currentStep, totalSteps |-> totalSteps,
   variables |-> variables, sourceNodeId |-> sourceNodeId,
   checksum |-> NoChecksum]

\* ----------------------------------------------------------- code bundles
\* Code strings, as sequences of character codes.  The two demo templates
\* and a custom code whose main() throws.
COUNTING_TASK == <<99, 116>>
SUM_TASK == <<115, 116>>
ThrowingCode == <<116, 104>>
NoCode == <<>>
RegistryCodes == {COUNTING_TASK, SUM_TASK}
CustomCodes == {COUNTING_TASK, ThrowingCode}
BundleNames == {"counting-task", "sum-task"}

\* generateId: the n-th id made.
generateId(n) == "uuid-" \o ToString(n)
\* Ids of bundles that an import brings from another registry.
ImportIds == {"ext-1"}
BundleKeys == BundleNames \cup {generateId(n) : n \in 1..MaxBundles} \cup ImportIds

\* A checksum string: the 8-digit hexadecimal form of a number, or a text
\* that is no such form.
Hex8(n) == <<"hex", n>>
Text(x) == <<x, 0>>

Abs(n) == IF n < 0 THEN 0 - n ELSE n

\* generateChecksum: hash = ((hash << 5) - hash) + char over the content.
\* The 32-bit truncation of `hash & hash` is the identity for the code
\* strings above (|hash| < 2^31).
RECURSIVE hashFrom(_, _, _)
hashFrom(content, i, hash) ==
  IF i > Len(content) THEN hash
  ELSE hashFrom(content, i + 1, ((hash * 32) - hash) + content[i])

generateChecksum(content) == Hex8(Abs(hashFrom(content, 1, 0)))

NoBundle == [id |-> None, name |-> None, code |-> NoCode, checksum |-> Text("")]

\* createCodeBundle, with the id its generateId() call returns.
createCodeBundle(id, name, code) ==
  [id |-> id, name |-> name, code |-> code, checksum |-> generateChecksum(code)]

\* verifyCodeBundle
verifyCodeBundle(bundle) == generateChecksum(bundle.code) = bundle.checksum

\* The temporary bundle the coordinator makes of a task's customCode.
customBundle(t, code) ==
  [id |-> "custom-bundle-" \o t, name |-> "Custom Code for " \o t,
   code |-> code, checksum |-> Text("custom")]

\* ------------------------------------------------------------------ state
VARIABLES
  nodeOrder,     \* coordinator.nodes: keys in Map insertion order
  nodes,         \* coordinator.nodes: id -> [status, stale]
  tasks,         \* coordinator.tasks: id -> task record
  taskOrder,     \* coordinator.tasks: keys in Map insertion order
  pending,       \* coordinator.pendingCheckpoints: taskId -> waiting handler
  migs,          \* handleMigrationRequest invocations (async handlers)
  nmig,          \* number of invocations that got past the existence checks
  next,          \* number of checkpoint:saved messages of other clients
  nfail,         \* number of node failures so far
  history,       \* registry.checkpoints: taskId -> sequence
  latest,        \* registry.latestCheckpoints: taskId -> checkpoint
  bundles,       \* registry.bundles: key (id or name) -> bundle
  nbundle,       \* number of ids generateId has made for bundles
  stats,         \* coordinator.nodeStatsHistory: node -> samples in the window
  sock,          \* sockets: the worker's (cur), the node entry's (reg), a superseded one still open (old)
  events,        \* migration events broadcast on broadcast:event
  replies,       \* task:error / task:submitted sent to the submitters
  conn,          \* worker -> its socket is connected
  toWorker,      \* coordinator -> worker messages in flight
  toCoord,       \* worker -> coordinator messages in flight
  wtask,         \* WorkerClient.currentTask
  wref,          \* WorkerClient.currentRuntime (slot, 0 = null)
  rts            \* worker -> slot -> ExecutionRuntime with its running task

vars ==
  <<nodeOrder, nodes, tasks, taskOrder, pending, migs, nmig, next, nfail,
    history, latest, bundles, nbundle, stats, sock, events, replies,
    conn, toWorker, toCoord, wtask, wref, rts>>

coordVars ==
  <<nodeOrder, nodes, tasks, taskOrder, pending, migs, nmig, next, nfail,
    history, latest, bundles, nbundle, stats, sock, events, replies>>
workerVars == <<wtask, wref, rts>>

\* ---------------------------------------------------------------- records
NoNode == [status |-> "offline", stale |-> FALSE]
NoTask ==
  [status |-> "pending", currentNodeId |-> None, migrationType |-> "weak",
   started |-> FALSE, progress |-> 0, customCode |-> NoCode]
NoMig ==
  [pc |-> "idle", task |-> None, src |-> None, tgt |-> None, type |-> "weak",
   srcLive |-> FALSE, tgtLive |-> FALSE, timer |-> FALSE, left |-> 0,
   cp |-> NoCp, before |-> "none", owned |-> FALSE, overlap |-> FALSE,
   trace |-> <<>>, bundle |-> NoBundle, auto |-> None]
NoRt ==
  [taskId |-> None, current |-> 0, paused |-> FALSE, since |-> 0,
   enabled |-> FALSE, latestCheckpoint |-> NoCp, active |-> FALSE,
   code |-> NoCode]

Msg(type, task, cp, arg) ==
  [type |-> type, task |-> task, cp |-> cp, arg |-> arg, bundle |-> NoBundle]

\* The task:assign payload {task, codeBundle, checkpoint}.
AssignMsg(task, cp, ty, bundle) ==
  [type |-> "assign", task |-> task, cp |-> cp, arg |-> ty, bundle |-> bundle]

\* initDefaultBundles: each default bundle under its id and its name.
DefaultBundles ==
  LET countingBundle == createCodeBundle(generateId(1), "counting-task", COUNTING_TASK)
      sumBundle == createCodeBundle(generateId(2), "sum-task", SUM_TASK)
  IN [k \in BundleKeys |->
        IF k \in {countingBundle.id, "counting-task"} THEN countingBundle
        ELSE IF k \in {sumBundle.id, "sum-task"} THEN sumBundle
        ELSE NoBundle]

InMap(order, n) == \E i \in 1..Len(order) : order[i] = n
Remove(order, n) == SelectSeq(order, LAMBDA x : x # n)

Init ==
  /\ nodeOrder = <<>>
  /\ nodes = [n \in Nodes |-> NoNode]
  /\ tasks = [t \in TaskIds |-> NoTask]
  /\ taskOrder = <<>>
  /\ pending = [t \in TaskIds |-> 0]
  /\ migs = [m \in MigIds |-> NoMig]
  /\ nmig = 0
  /\ next = 0
  /\ nfail = 0
  /\ history = [t \in TaskIds |-> <<>>]
  /\ latest = [t \in TaskIds |-> NoCp]
  /\ bundles = DefaultBundles
  /\ nbundle = 2
  /\ stats = [n \in Nodes |-> <<>>]
  /\ sock = [n \in Nodes |-> [cur |-> 0, reg |-> 0, old |-> FALSE]]
  /\ events = {}
  /\ replies = {}
  /\ conn = [n \in Nodes |-> FALSE]
  /\ toWorker = [n \in Nodes |-> <<>>]
  /\ toCoord = [n \in Nodes |-> <<>>]
  /\ wtask = [n \in Nodes |-> None]
  /\ wref = [n \in Nodes |-> 0]
  /\ rts = [n \in Nodes |-> [i \in RtIds |-> NoRt]]

\* A queue never holds more than MaxQ messages.
QOk(q) == \A n \in Nodes : Len(q[n]) <= MaxQ

\* socket.emit on a worker's connection: dropped when the socket is closed.
Emit(q, n, live, m) ==
  IF live /\ n \in Nodes /\ conn[n] THEN [q EXCEPT ![n] = Append(@, m)] ELSE q

\* ------------------------------------------------------------ coordinator
\* Every node of the model registers with role 'worker'.
Role(n) == "worker"

Available(order, ns) ==
  {i \in 1..Len(order) :
     Role(order[i]) = "worker" /\ ns[order[i]].status = "online"}

\* A selection that takes the first worker in iteration order whatever its
\* status.
findFirstWorker(order, ns) ==
  IF order = <<>> THEN None ELSE order[1]

\* findAvailableWorker: the first node in iteration order that is a worker
\* and online.
findAvailableWorker(order, ns) ==
  IF Available(order, ns) = {} THEN None
  ELSE order[CHOOSE i \in Available(order, ns) :
               \A j \in Available(order, ns) : i <= j]

\* registry.getBundle
getBundle(key) == bundles[key]

\* The coordinator state that assignment and recovery read and write.
CState(ts, ns, tw, ev) == [tasks |-> ts, nodes |-> ns, toWorker |-> tw, events |-> ev]

\* assignTaskToNode(task, worker, checkpoint, overrideBundle)
assignTaskToNode(c, t, w, cp, overrideBundle) ==
  LET codeBundle == IF overrideBundle # NoBundle THEN overrideBundle
                    ELSE getBundle("counting-task")
  IN
  IF codeBundle = NoBundle THEN c
  ELSE [c EXCEPT
          !.tasks[t].status = "running",
          !.tasks[t].currentNodeId = w,
          !.tasks[t].started = TRUE,
          !.nodes[w].status = "busy",
          !.toWorker = Emit(c.toWorker, w, TRUE,
                            AssignMsg(t, cp, c.tasks[t].migrationType,
                                      codeBundle))]

\* task.progress computed by the strong recovery from a checkpoint.
ProgressOf(cp) ==
  IF cp.totalSteps = 0 THEN 0 ELSE (cp.currentStep * 100) \div cp.totalSteps

\* TaskRecoveryManager.findAffectedTasks, in the task map's iteration order.
findAffectedTasks(ts, order, f) ==
  SelectSeq(order, LAMBDA t :
    ts[t].currentNodeId = f /\ ts[t].status \in {"running", "migrating"})

\* TaskRecoveryManager.performWeakRecovery
performWeakRecovery(c, t, f, w) ==
  assignTaskToNode(
    [c EXCEPT !.events = @ \cup {<<"task_recovered", t>>},
              !.tasks[t].progress = 0,
              !.tasks[t].currentNodeId = w,
              !.tasks[t].status = "running"],
    t, w, NoCp, NoBundle)

\* A strong recovery that reassigns without the checkpoint.
performStrongRecoveryFromStart(c, t, f, w, cp) ==
  assignTaskToNode(
    [c EXCEPT !.events = @ \cup {<<"task_recovered", t>>},
              !.tasks[t].currentNodeId = w,
              !.tasks[t].status = "running",
              !.tasks[t].progress = IF cp = NoCp THEN 0 ELSE ProgressOf(cp)],
    t, w, NoCp, NoBundle)

\* TaskRecoveryManager.performStrongRecovery: cp is the registry's latest
\* checkpoint of the task (NoCp when there is none).
performStrongRecovery(c, t, f, w, cp) ==
  assignTaskToNode(
    [c EXCEPT !.events = @ \cup {<<"task_recovered", t>>},
              !.tasks[t].currentNodeId = w,
              !.tasks[t].status = "running",
              !.tasks[t].progress = IF cp = NoCp THEN 0 ELSE ProgressOf(cp)],
    t, w, cp, NoBundle)

\* A recoverTask that reports the failure but leaves the task's status.
recoverTaskKeepsStatus(c, order, t, f) ==
  LET w == findAvailableWorker(order, c.nodes) IN
  IF w = None
  THEN [c EXCEPT !.events = @ \cup {<<"migration_failed", t>>}]
  ELSE IF c.tasks[t].migrationType = "weak"
       THEN performWeakRecovery(c, t, f, w)
       ELSE performStrongRecovery(c, t, f, w, latest[t])

\* TaskRecoveryManager.recoverTask
recoverTask(c, order, t, f) ==
  LET w == findAvailableWorker(order, c.nodes) IN
  IF w = None
  THEN [c EXCEPT !.events = @ \cup {<<"migration_failed", t>>},
                 !.tasks[t].status = "failed"]
  ELSE IF c.tasks[t].migrationType = "weak"
       THEN performWeakRecovery(c, t, f, w)
       ELSE performStrongRecovery(c, t, f, w, latest[t])

RECURSIVE RecoverTasks(_, _, _, _)
RecoverTasks(c, order, f, ts) ==
  IF ts = <<>> THEN c
  ELSE RecoverTasks(recoverTask(c, order, Head(ts), f), order, f, Tail(ts))

\* TaskRecoveryManager.handleNodeFailure up to its first await: the failure
\* event and the recovery of the first affected task.
FailureFirst(c, order, f) ==
  LET aff == findAffectedTasks(c.tasks, taskOrder, f) IN
  IF aff = <<>> THEN c
  ELSE recoverTask([c EXCEPT !.events = @ \cup {<<"node_failure_detected", Head(aff)>>}],
                   order, Head(aff), f)

\* The affected tasks handleNodeFailure recovers after its first await.
FailureRest(c, f) ==
  LET aff == findAffectedTasks(c.tasks, taskOrder, f) IN
  IF aff = <<>> THEN <<>> ELSE Tail(aff)

\* handleNodeFailure run to completion (no other handleNodeFailure pending).
handleNodeFailure(c, order, f) ==
  RecoverTasks(FailureFirst(c, order, f), order, f, FailureRest(c, f))

\* A sweep that acts on the expired nodes that are idle only.
timedOutIdle(ns, n) == ns[n].stale /\ ns[n].status = "online"

\* The sweep's test of a node: its lastPing is older than HEARTBEAT_TIMEOUT
\* and it is not marked offline yet.
timedOut(ns, n) == ns[n].stale /\ ns[n].status # "offline"

\* The heartbeat sweep's loop over the node map from position i on: a stale
\* node that is not offline is marked offline and handleNodeFailure is
\* called (not awaited) for it.  defs collects, per failed node, the tasks
\* its handleNodeFailure still has to recover once the loop has ended.
RECURSIVE SweepLoop(_, _, _, _)
SweepLoop(c, order, i, defs) ==
  IF i > Len(order) THEN [c |-> c, defs |-> defs]
  ELSE LET n == order[i] IN
       IF timedOut(c.nodes, n)
       THEN LET c1 == [c EXCEPT !.nodes[n].status = "offline"] IN
            SweepLoop(FailureFirst(c1, order, n), order, i + 1,
                      Append(defs, <<n, FailureRest(c1, n)>>))
       ELSE SweepLoop(c, order, i + 1, defs)

\* The pending handleNodeFailure continuations, resumed in turn: each
\* recovers its next task and yields again.
RECURSIVE DrainPass(_, _, _, _)
DrainPass(c, order, defs, i) ==
  IF i > Len(defs) THEN c
  ELSE DrainPass(IF defs[i][2] = <<>> THEN c
                 ELSE recoverTask(c, order, Head(defs[i][2]), defs[i][1]),
                 order, defs, i + 1)

RECURSIVE Drain(_, _, _)
Drain(c, order, defs) ==
  IF \A i \in 1..Len(defs) : defs[i][2] = <<>> THEN c
  ELSE Drain(DrainPass(c, order, defs, 1), order,
             [i \in 1..Len(defs) |->
                <<defs[i][1],
                  IF defs[i][2] = <<>> THEN <<>> ELSE Tail(defs[i][2])>>])

\* References to a node's ConnectedNode object held by suspended migration
\* handlers go stale when the map entry is deleted or replaced.
Unlink(ms, n) ==
  [m \in MigIds |->
     [ms[m] EXCEPT !.srcLive = @ /\ ms[m].src # n,
                   !.tgtLive = @ /\ ms[m].tgt # n]]

InFlight(ms, t) == {m \in MigIds : ms[m].task = t /\ ms[m].pc \in {"await", "delay"}}

\* ------------------------------------------------- coordinator: handlers
Head1(q) == IF q = <<>> THEN Msg("none", None, NoCp, None) ELSE Head(q)

Receives(w, type) ==
  /\ conn[w]
  /\ Head1(toCoord[w]).type = type
  /\ toCoord' = [toCoord EXCEPT ![w] = Tail(@)]

\* handleNodeRegister: a new ConnectedNode object replaces any entry of the
\* same id (Map.set keeps the key's position).
NodeRegister(w) ==
  /\ Receives(w, "register")
  /\ nodeOrder' = IF InMap(nodeOrder, w) THEN nodeOrder ELSE Append(nodeOrder, w)
  /\ nodes' = [nodes EXCEPT ![w] = [status |-> "online", stale |-> FALSE]]
  /\ migs' = Unlink(migs, w)
  /\ sock' = [sock EXCEPT ![w].reg = sock[w].cur]
  /\ UNCHANGED <<tasks, taskOrder, pending, nmig, next, nfail, history, latest, bundles, nbundle, stats, replies,
                 events, conn, toWorker, wtask, wref, rts>>

\* handleHeartbeat: lastPing = now.
Heartbeat(w) ==
  /\ conn[w]
  /\ InMap(nodeOrder, w)
  /\ nodes[w].stale
  /\ nodes' = [nodes EXCEPT ![w].stale = FALSE]
  /\ UNCHANGED <<nodeOrder, tasks, taskOrder, pending, migs, nmig, next, nfail, history,
                 latest, bundles, nbundle, stats, sock, replies, events, conn, toWorker, toCoord, wtask, wref,
                 rts>>

\* Time passes without a heartbeat of w being handled: now - lastPing
\* exceeds HEARTBEAT_TIMEOUT.
PingExpires(w) ==
  /\ nfail < MaxFail
  /\ InMap(nodeOrder, w)
  /\ ~nodes[w].stale
  /\ nodes' = [nodes EXCEPT ![w].stale = TRUE]
  /\ nfail' = nfail + 1
  /\ UNCHANGED <<nodeOrder, tasks, taskOrder, pending, migs, nmig, next,
                 history, latest, bundles, nbundle, stats, sock, replies, events, conn, toWorker, toCoord,
                 wtask, wref, rts>>

\* The setInterval callback of start(): the heartbeat sweep.
Sweep ==
  LET r == SweepLoop(CState(tasks, nodes, toWorker, events), nodeOrder, 1, <<>>)
      c == Drain(r.c, nodeOrder, r.defs)
  IN /\ \E i \in 1..Len(nodeOrder) : timedOut(nodes, nodeOrder[i])
     /\ tasks' = c.tasks
     /\ nodes' = c.nodes
     /\ toWorker' = c.toWorker
     /\ events' = c.events
     /\ QOk(toWorker')
     /\ UNCHANGED <<nodeOrder, taskOrder, pending, migs, nmig, next, nfail, history, latest,
                    bundles, nbundle, stats, sock, replies, conn, toCoord, wtask, wref, rts>>

\* handleStatusUpdate.  A 'migrating' report of a migration's source is the
\* only acknowledgement of task:pause the protocol has; it is noted in the
\* trace of the migrations that are in flight from that source.
StatusUpdate(w) ==
  /\ Receives(w, "status")
  /\ IF InMap(nodeOrder, w)
     THEN nodes' = [nodes EXCEPT ![w].status = Head(toCoord[w]).arg]
     ELSE nodes' = nodes
  /\ migs' = [m \in MigIds |->
                IF /\ migs[m].pc \in {"await", "delay"}
                   /\ migs[m].src = w
                   /\ Head(toCoord[w]).arg = "migrating"
                   /\ \A i \in 1..Len(migs[m].trace) : migs[m].trace[i] # "ack"
                THEN [migs[m] EXCEPT !.trace = Append(@, "ack")]
                ELSE migs[m]]
  /\ UNCHANGED <<nodeOrder, tasks, taskOrder, pending, nmig, next, nfail, history, latest,
                 bundles, nbundle, stats, sock, replies, events, conn, toWorker, wtask, wref, rts>>

\* A handleTaskSubmit that returns without a reply when it cannot assign.
handleTaskSubmitSilent(c, t, ty, code) ==
  LET c1 == [c EXCEPT !.tasks[t] = [NoTask EXCEPT !.migrationType = ty,
                                                  !.customCode = code]]
      w == findAvailableWorker(nodeOrder, c.nodes)
      codeBundle == IF code # NoCode THEN customBundle(t, code)
                    ELSE getBundle("counting-task")
  IN IF w = None \/ codeBundle = NoBundle
     THEN c1
     ELSE [assignTaskToNode(c1, t, w, NoCp, codeBundle)
             EXCEPT !.replies = @ \cup {<<"task:submitted", t>>}]

\* handleTaskSubmit for a task made by createTask (status pending) with a
\* fresh id; code is its customCode (NoCode: none).  c holds the
\* coordinator state and the replies sent to the submitter.
handleTaskSubmit(c, t, ty, code) ==
  LET c1 == [c EXCEPT !.tasks[t] = [NoTask EXCEPT !.migrationType = ty,
                                                  !.customCode = code]]
      w == findAvailableWorker(nodeOrder, c.nodes)
      codeBundle == IF code # NoCode THEN customBundle(t, code)
                    ELSE getBundle("counting-task")
  IN IF w = None \/ codeBundle = NoBundle
     THEN [c1 EXCEPT !.replies = @ \cup {<<"task:error", t>>}]
     ELSE [assignTaskToNode(c1, t, w, NoCp, codeBundle)
             EXCEPT !.replies = @ \cup {<<"task:submitted", t>>}]

TaskSubmit(t, ty, code) ==
  /\ ~InMap(taskOrder, t)
  /\ taskOrder' = Append(taskOrder, t)
  /\ LET c == handleTaskSubmit(
                [tasks |-> tasks, nodes |-> nodes, toWorker |-> toWorker,
                 events |-> events, replies |-> replies], t, ty, code)
     IN /\ tasks' = c.tasks
        /\ nodes' = c.nodes
        /\ toWorker' = c.toWorker
        /\ replies' = c.replies
  /\ QOk(toWorker')
  /\ UNCHANGED <<nodeOrder, pending, migs, nmig, next, nfail, history, latest,
                 bundles, nbundle, stats, sock, events, conn, toCoord, wtask, wref, rts>>

\* task:error from a worker: the coordinator registers no handler for it,
\* the message is dropped.
TaskError(w) ==
  /\ Receives(w, "error")
  /\ UNCHANGED <<coordVars, conn, toWorker, wtask, wref, rts>>

\* handleTaskComplete
TaskComplete(w) ==
  /\ Receives(w, "complete")
  /\ LET t == Head(toCoord[w]).task IN
     IF InMap(taskOrder, t)
     THEN /\ tasks' = [tasks EXCEPT ![t].status = "completed"]
          /\ nodes' = IF InMap(nodeOrder, tasks[t].currentNodeId)
                      THEN [nodes EXCEPT ![tasks[t].currentNodeId].status = "online"]
                      ELSE nodes
     ELSE UNCHANGED <<tasks, nodes>>
  /\ UNCHANGED <<nodeOrder, taskOrder, pending, migs, nmig, next, nfail, history, latest,
                 bundles, nbundle, stats, sock, replies, events, conn, toWorker, wtask, wref, rts>>

\* A test by node id alone: the entry of the node is taken for the closing
\* socket's, whichever socket it holds.
holdsNode(s, w, k) == TRUE

\* handleDisconnect, line 584: node.socket.id === socket.id.
holdsSocket(s, w, k) == s[w].reg = k

\* handleDisconnect for socket k of worker w: the entry that holds the
\* socket, if there is one, is deleted from the map, then recovery runs.
\* `left` is what is in flight to the workers once the socket is closed.
handleDisconnect(w, k, left) ==
  IF InMap(nodeOrder, w) /\ holdsSocket(sock, w, k)
  THEN LET order == Remove(nodeOrder, w)
           c == handleNodeFailure(CState(tasks, nodes, left, events), order, w)
       IN /\ nodeOrder' = order
          /\ tasks' = c.tasks
          /\ nodes' = [c.nodes EXCEPT ![w] = NoNode]
          /\ toWorker' = c.toWorker
          /\ events' = c.events
          /\ migs' = Unlink(migs, w)
  ELSE /\ toWorker' = left
       /\ UNCHANGED <<nodeOrder, tasks, nodes, events, migs>>

\* The worker's connection closes; what is in flight on it is lost.
Disconnect(w) ==
  /\ nfail < MaxFail
  /\ nfail' = nfail + 1
  /\ conn[w]
  /\ conn' = [conn EXCEPT ![w] = FALSE]
  /\ toCoord' = [toCoord EXCEPT ![w] = <<>>]
  /\ handleDisconnect(w, sock[w].cur, [toWorker EXCEPT ![w] = <<>>])
  /\ QOk(toWorker')
  /\ UNCHANGED <<taskOrder, pending, nmig, next, history, latest, bundles, nbundle, stats, sock, replies,
                 wtask, wref, rts>>

\* The worker's client reconnects on a new socket while the coordinator
\* still holds the previous one open (it has not noticed the loss yet), and
\* the coordinator handles the node:register that the new socket brings:
\* handleNodeRegister replaces the entry.  What was in flight on the
\* previous socket is lost.
Takeover(w) ==
  /\ conn[w]
  /\ ~sock[w].old
  /\ sock' = [sock EXCEPT ![w] = [cur |-> 1 - sock[w].cur,
                                  reg |-> 1 - sock[w].cur,
                                  old |-> TRUE]]
  /\ nodeOrder' = IF InMap(nodeOrder, w) THEN nodeOrder ELSE Append(nodeOrder, w)
  /\ nodes' = [nodes EXCEPT ![w] = [status |-> "online", stale |-> FALSE]]
  /\ migs' = Unlink(migs, w)
  /\ toWorker' = [toWorker EXCEPT ![w] = <<>>]
  /\ toCoord' = [toCoord EXCEPT ![w] = <<>>]
  /\ UNCHANGED <<tasks, taskOrder, pending, nmig, next, nfail, history, latest,
                 bundles, nbundle, stats, replies, events, conn, wtask, wref, rts>>

\* The superseded socket of worker w closes: handleDisconnect runs for it.
OldDisconnect(w) ==
  /\ sock[w].old
  /\ sock' = [sock EXCEPT ![w].old = FALSE]
  /\ handleDisconnect(w, 1 - sock[w].cur, toWorker)
  /\ QOk(toWorker')
  /\ UNCHANGED <<taskOrder, pending, nmig, next, nfail, history, latest, bundles,
                 nbundle, stats, replies, conn, toCoord, wtask, wref, rts>>

\* ------------------------------------------- coordinator: migration
MigTypes == {"weak", "strong"}

\* A handleMigrationRequest that skips phase 2 whatever the type.
awaitsCheckpointNever(ty) == FALSE

\* handleMigrationRequest, line 471: phase 2 is entered for strong only.
awaitsCheckpoint(ty) == ty = "strong"

\* The delays (suspensions) of MigrationManager.executeWeakMigration and of
\* executeStrongMigration with a checkpoint.
Delays(ty) == IF ty = "weak" THEN 2 ELSE 4

\* Events the migration manager emits before its first delay ...
StartEvents(t) == {<<"migration_requested", t>>, <<"migration_started", t>>}

\* ... and after the delay that leaves `left` delays to go (counted with it).
StageEvents(ty, left, t) ==
  IF ty = "weak"
  THEN IF left = 2 THEN {<<"code_transferred", t>>}
       ELSE {<<"execution_resumed", t>>, <<"migration_completed", t>>}
  ELSE IF left = 4 THEN {<<"code_transferred", t>>}
       ELSE IF left = 3 THEN {<<"state_transferred", t>>}
       ELSE IF left = 2 THEN {<<"execution_resumed", t>>}
       ELSE {<<"migration_completed", t>>}

\* checkAutoMigration, line 671: the history of node n is emptied when the
\* awaited handleMigrationRequest returns, that is when one of n's
\* automatic transactions leaves the states "await" and "delay".
Ended(old, new, m) ==
  new[m].pc \in {"aborted", "done"} /\ old[m].pc \notin {"aborted", "done"}

ClearEnded(hist, old, new) ==
  [n \in Nodes |->
     IF \E m \in MigIds : new[m].auto = n /\ Ended(old, new, m)
     THEN <<>>
     ELSE hist[n]]

\* handleMigrationRequest up to its first suspension.  `auto` is the node
\* whose checkAutoMigration awaits the call (None for a request of a
\* client) and `hist` the stats history at the time of the call.
handleMigrationRequest(t, s, g, ty, auto, hist) ==
  /\ nmig < MaxMig
  /\ IF ~InMap(taskOrder, t) \/ ~InMap(nodeOrder, s) \/ ~InMap(nodeOrder, g)
     THEN /\ stats' = IF auto = None THEN hist ELSE [hist EXCEPT ![auto] = <<>>]
          /\ UNCHANGED <<nmig, toWorker, tasks, migs, pending, events>>
     ELSE LET m == nmig + 1
              rec == [NoMig EXCEPT
                        !.task = t, !.src = s, !.tgt = g, !.type = ty,
                        !.auto = auto,
                        !.srcLive = TRUE, !.tgtLive = TRUE,
                        !.before = tasks[t].status,
                        !.owned = tasks[t].currentNodeId = s,
                        !.overlap = InFlight(migs, t) # {},
                        !.trace = <<"pause">>,
                        !.bundle = IF tasks[t].customCode # NoCode
                                   THEN customBundle(t, tasks[t].customCode)
                                   ELSE getBundle("counting-task")]
          IN /\ nmig' = m
             /\ toWorker' = Emit(toWorker, s, TRUE,
                                 Msg("pause", t, NoCp, ty = "strong"))
             /\ QOk(toWorker')
             /\ tasks' = [tasks EXCEPT ![t].status = "migrating"]
             /\ IF rec.bundle = NoBundle
                THEN /\ migs' = [migs EXCEPT ![m] = [rec EXCEPT !.pc = "aborted"]]
                     /\ UNCHANGED <<pending, events>>
                ELSE IF awaitsCheckpoint(ty)
                THEN /\ migs' = [migs EXCEPT
                                   ![m] = [rec EXCEPT !.pc = "await", !.timer = TRUE]]
                     /\ pending' = [pending EXCEPT ![t] = m]
                     /\ UNCHANGED events
                ELSE /\ migs' = [migs EXCEPT
                                   ![m] = [rec EXCEPT !.pc = "delay",
                                                      !.left = Delays(ty)]]
                     /\ events' = events \cup StartEvents(t)
                     /\ UNCHANGED pending
             /\ stats' = ClearEnded(hist, migs, migs')
  /\ UNCHANGED <<nodeOrder, nodes, taskOrder, next, nfail, history,
                 latest, bundles, nbundle, sock, replies, conn, toCoord, wtask, wref, rts>>

\* migration:request of a client.
MigrationRequest(t, s, g, ty) ==
  handleMigrationRequest(t, s, g, ty, None, stats)

\* checkAutoMigration, lines 634-637: the samples of the last
\* AUTO_MIGRATION_DURATION_MS.  Samples arrive once per HEARTBEAT_INTERVAL,
\* so pushing a sample moves the oldest one of a full window out of it.
relevantStats(h) ==
  IF Len(h) > ExpectedSamples THEN SubSeq(h, Len(h) - ExpectedSamples + 1, Len(h))
  ELSE h

\* checkAutoMigration, lines 642-646: at least 80% of the expected samples
\* and every one of them above AUTO_MIGRATION_CPU_THRESHOLD.  A sample is
\* recorded as TRUE when its cpuUsage is above the threshold.
isOverloaded(h) ==
  /\ ~(Len(h) * 10 < ExpectedSamples * 8)
  /\ \A i \in 1..Len(h) : h[i]

\* A search for the node's task that ignores the task's status.
anyTaskOn(ts, order, n) ==
  LET on == {i \in 1..Len(order) : ts[order[i]].currentNodeId = n}
  IN IF on = {} THEN None
     ELSE order[CHOOSE i \in on : \A j \in on : i <= j]

\* checkAutoMigration, lines 650-652: the first task in iteration order
\* that is bound to node n and running.
runningTaskOn(ts, order, n) ==
  LET on == {i \in 1..Len(order) :
               ts[order[i]].currentNodeId = n /\ ts[order[i]].status = "running"}
  IN IF on = {} THEN None
     ELSE order[CHOOSE i \in on : \A j \in on : i <= j]

\* findAutoMigrationTarget: the first online worker other than the source.
findAutoMigrationTarget(order, ns, excludeNodeId) ==
  LET ok == {i \in Available(order, ns) : order[i] # excludeNodeId}
  IN IF ok = {} THEN None
     ELSE order[CHOOSE i \in ok : \A j \in ok : i <= j]

\* node:stats of worker n (WorkerClient.sendStats, once per heartbeat
\* interval): handleNodeStats stores the sample and checkAutoMigration runs
\* up to the first suspension of the migration handler it awaits.
NodeStats(n, hot) ==
  LET h == relevantStats(Append(stats[n], hot))
      hist == [stats EXCEPT ![n] = h]
      runningTask == runningTaskOn(tasks, taskOrder, n)
      targetNode == findAutoMigrationTarget(nodeOrder, nodes, n)
  IN /\ conn[n]
     /\ IF isOverloaded(h) /\ runningTask # None /\ targetNode # None
        THEN handleMigrationRequest(runningTask, n, targetNode, "strong", n, hist)
        ELSE /\ stats' = hist
             /\ UNCHANGED <<nodeOrder, nodes, tasks, taskOrder, pending, migs,
                            nmig, next, nfail, history, latest, bundles, nbundle, sock,
                            events, replies, conn, toWorker, toCoord, wtask,
                            wref, rts>>

\* handleCheckpointSaved, lines 559-560: the integrity check.
checksumMismatch(cp) ==
  cp.checksum # NoChecksum /\ cp.checksum # calculateCheckpointChecksum(cp)

\* A handleCheckpointSaved that broadcasts only when a waiter was resolved.
handleCheckpointSavedQuiet(cp) ==
  LET t == cp.taskId
      m == pending[t]
  IN /\ Len(history[t]) < MaxHist
     /\ history' = [history EXCEPT ![t] = Append(@, cp)]
     /\ latest' = [latest EXCEPT ![t] = cp]
     /\ IF m = 0
        THEN UNCHANGED <<events, pending, migs>>
        ELSE IF checksumMismatch(cp)
        THEN /\ pending' = [pending EXCEPT ![t] = 0]
             /\ migs' = [migs EXCEPT ![m].pc = "aborted", ![m].timer = FALSE]
             /\ UNCHANGED events
        ELSE /\ pending' = [pending EXCEPT ![t] = 0]
             /\ migs' = [migs EXCEPT
                           ![m].pc = "delay", ![m].timer = FALSE, ![m].cp = cp,
                           ![m].left = Delays(migs[m].type),
                           ![m].trace = Append(@, "checkpoint_saved")]
             /\ events' = events \cup StartEvents(t) \cup {<<"checkpoint:saved", t>>}

\* handleCheckpointSaved.  Resolving the waiter resumes the suspended
\* handleMigrationRequest, which runs on to the migration manager's first
\* delay; rejecting it runs the handler's catch block.
handleCheckpointSaved(cp) ==
  LET t == cp.taskId
      m == pending[t]
  IN /\ Len(history[t]) < MaxHist
     /\ history' = [history EXCEPT ![t] = Append(@, cp)]
     /\ latest' = [latest EXCEPT ![t] = cp]
     /\ IF m = 0
        THEN /\ events' = events \cup {<<"checkpoint:saved", t>>}
             /\ UNCHANGED <<pending, migs>>
        ELSE IF checksumMismatch(cp)
        THEN /\ pending' = [pending EXCEPT ![t] = 0]
             /\ migs' = [migs EXCEPT ![m].pc = "aborted", ![m].timer = FALSE]
             /\ UNCHANGED events
        ELSE /\ pending' = [pending EXCEPT ![t] = 0]
             /\ migs' = [migs EXCEPT
                           ![m].pc = "delay", ![m].timer = FALSE, ![m].cp = cp,
                           ![m].left = Delays(migs[m].type),
                           ![m].trace = Append(@, "checkpoint_saved")]
             /\ events' = events \cup StartEvents(t) \cup {<<"checkpoint:saved", t>>}

\* checkpoint:saved from a worker (the runtime's onCheckpoint).
CheckpointSaved(w) ==
  /\ Receives(w, "checkpoint")
  /\ handleCheckpointSaved(Head(toCoord[w]).cp)
  /\ stats' = ClearEnded(stats, migs, migs')
  /\ UNCHANGED <<nodeOrder, nodes, tasks, taskOrder, nmig, next, nfail,
                 bundles, nbundle, sock, replies, conn, toWorker, wtask, wref, rts>>

\* checkpoint:saved from any other client (SocketService.sendCheckpoint):
\* a checkpoint of step k that carries no checksum ("none"), the checksum
\* of its content ("valid"), or a checksum of content that was altered
\* afterwards ("tampered").
CheckpointKinds == {"none", "valid", "tampered"}

ExternalCheckpoint(t, k, kind) ==
  LET cp0 == createCheckpoint(t, k, TotalSteps, k, "ext")
      cp1 == [cp0 EXCEPT !.checksum = IF kind = "none" THEN NoChecksum
                                      ELSE calculateCheckpointChecksum(cp0)]
      cp == [cp1 EXCEPT !.variables = IF kind = "tampered" THEN k + 1 ELSE k]
  IN /\ next < MaxExt
     /\ next' = next + 1
     /\ handleCheckpointSaved(cp)
     /\ stats' = ClearEnded(stats, migs, migs')
     /\ UNCHANGED <<nodeOrder, nodes, tasks, taskOrder, nmig, nfail, bundles, nbundle, sock, replies,
                    conn, toWorker, toCoord, wtask, wref, rts>>

\* The timer of waitForCheckpoint set by handler m fires.
CheckpointTimeout(m) ==
  /\ migs[m].timer
  /\ IF pending[migs[m].task] # 0
     THEN /\ pending' = [pending EXCEPT ![migs[m].task] = 0]
          /\ migs' = [migs EXCEPT ![m].pc = "aborted", ![m].timer = FALSE]
     ELSE /\ migs' = [migs EXCEPT ![m].timer = FALSE]
          /\ UNCHANGED pending
  /\ stats' = ClearEnded(stats, migs, migs')
  /\ UNCHANGED <<nodeOrder, nodes, tasks, taskOrder, nmig, next, nfail, history, latest,
                 bundles, nbundle, sock, replies, events, conn, toWorker, toCoord, wtask, wref, rts>>

\* Phase 3 of handleMigrationRequest after executeMigration returned
\* success: the commit.
Commit(c, m) ==
  LET r == migs[m] IN
  [c EXCEPT
     !.tasks[r.task].currentNodeId = r.tgt,
     !.tasks[r.task].status = "running",
     !.nodes = [n \in Nodes |->
                  IF n = r.tgt /\ r.tgtLive THEN [c.nodes[n] EXCEPT !.status = "busy"]
                  ELSE IF n = r.src /\ r.srcLive
                  THEN [c.nodes[n] EXCEPT !.status = "online"]
                  ELSE c.nodes[n]],
     !.toWorker = Emit(c.toWorker, r.tgt, r.tgtLive,
                       AssignMsg(r.task,
                                 IF r.type = "strong" THEN r.cp ELSE NoCp,
                                 c.tasks[r.task].migrationType, r.bundle))]

\* A delay of the migration manager ends: the next events are emitted and,
\* after the last delay, the handler commits.
MigrationDelay(m) ==
  /\ migs[m].pc = "delay"
  /\ events' = events \cup StageEvents(migs[m].type, migs[m].left, migs[m].task)
  /\ IF migs[m].left > 1
     THEN /\ migs' = [migs EXCEPT ![m].left = @ - 1]
          /\ UNCHANGED <<tasks, nodes, toWorker>>
     ELSE LET c == Commit(CState(tasks, nodes, toWorker, events), m) IN
          /\ migs' = [migs EXCEPT ![m].left = 0, ![m].pc = "done",
                                  ![m].trace = Append(@, "assign")]
          /\ tasks' = c.tasks
          /\ nodes' = c.nodes
          /\ toWorker' = c.toWorker
          /\ QOk(toWorker')
  /\ stats' = ClearEnded(stats, migs, migs')
  /\ UNCHANGED <<nodeOrder, taskOrder, pending, nmig, next, nfail, history, latest, bundles, nbundle, sock, replies,
                 conn, toCoord, wtask, wref, rts>>

\* ------------------------------------------------------------ worker
\* socket.emit of the messages `out` by worker w.
Send(w, out) == IF conn[w] THEN toCoord[w] \o out ELSE toCoord[w]

\* handleTaskAssignment, line 341, and the counting task's first line:
\* the step the task starts counting from.
firstStep(cp) ==
  LET startFrom == IF cp # NoCp /\ cp.currentStep # 0 THEN cp.currentStep + 1 ELSE 1
  IN IF cp # NoCp /\ cp.currentStep # 0 THEN cp.currentStep ELSE startFrom

\* What the function made of a code string does when it is called: the
\* custom code of this model throws, the templates count.
Throws(code) == code = ThrowingCode

\* The counting task from the top of its while loop to its next sleep:
\* reportProgress, then saveCheckpoint when shouldCheckpoint() says so.
\* When the loop has ended the task returns its result and the runtime's
\* onComplete callback reports it.  A task function that throws ends the
\* runtime through onError, which reports task:error and leaves the
\* worker's currentTask and currentRuntime as they are.
RunLoop(rt, w) ==
  IF Throws(rt.code)
  THEN [rt |-> NoRt, done |-> FALSE,
        out |-> <<Msg("error", rt.taskId, NoCp, None)>>]
  ELSE IF rt.current > TotalSteps
  THEN [rt |-> NoRt, done |-> TRUE,
        out |-> <<Msg("complete", rt.taskId, NoCp, None),
                  Msg("status", None, NoCp, "online")>>]
  ELSE IF rt.enabled /\ rt.since + 1 >= IntervalSteps
  THEN LET cp == createCheckpoint(rt.taskId, rt.current, TotalSteps, rt.current, w)
       IN [rt |-> [rt EXCEPT !.since = 0, !.latestCheckpoint = cp],
           done |-> FALSE,
           out |-> <<Msg("checkpoint", rt.taskId, cp, None)>>]
  ELSE [rt |-> [rt EXCEPT !.since = @ + 1], done |-> FALSE, out |-> <<>>]

FreeSlots(w) == {i \in RtIds : ~rts[w][i].active}

\* handleTaskAssignment: the worker takes the task whatever it is doing; a
\* runtime it was running keeps running, no longer referenced.
WorkerAssign(w) ==
  /\ conn[w]
  /\ Head1(toWorker[w]).type = "assign"
  /\ FreeSlots(w) # {}
  /\ LET msg == Head(toWorker[w])
         i == CHOOSE j \in FreeSlots(w) : \A k \in FreeSlots(w) : j <= k
         rt0 == [NoRt EXCEPT !.taskId = msg.task, !.active = TRUE,
                             !.enabled = (msg.arg = "strong"),
                             !.current = firstStep(msg.cp),
                             !.code = msg.bundle.code]
         r == RunLoop(rt0, w)
     IN /\ toWorker' = [toWorker EXCEPT ![w] = Tail(@)]
        /\ rts' = [rts EXCEPT ![w] =
                     [j \in RtIds |->
                        IF j = i THEN r.rt
                        ELSE IF rts[w][j].active THEN rts[w][j] ELSE NoRt]]
        /\ wtask' = [wtask EXCEPT ![w] = IF r.done THEN None ELSE msg.task]
        /\ wref' = [wref EXCEPT ![w] = IF r.done THEN 0 ELSE i]
        /\ toCoord' = [toCoord EXCEPT ![w] =
                         Send(w, <<Msg("status", None, NoCp, "busy")>> \o r.out)]
  /\ QOk(toCoord')
  /\ UNCHANGED <<coordVars, conn>>

\* handleTaskPause: the payload's requireSnapshot is not read.
WorkerPause(w) ==
  /\ conn[w]
  /\ Head1(toWorker[w]).type = "pause"
  /\ toWorker' = [toWorker EXCEPT ![w] = Tail(@)]
  /\ IF wref[w] = 0 \/ wtask[w] = None \/ wtask[w] # Head(toWorker[w]).task
     THEN UNCHANGED <<rts, toCoord>>
     ELSE /\ rts' = [rts EXCEPT ![w][wref[w]].paused = rts[w][wref[w]].active]
          /\ toCoord' = [toCoord EXCEPT ![w] =
                           Send(w, <<Msg("status", None, NoCp, "migrating")>>)]
  /\ QOk(toCoord')
  /\ UNCHANGED <<coordVars, conn, wtask, wref>>

\* The task of runtime i wakes from its sleep: it returns {paused} when the
\* runtime was paused, and goes on to its next step otherwise.
WorkerWake(w, i) ==
  /\ rts[w][i].active
  /\ IF rts[w][i].paused
     THEN /\ rts' = [rts EXCEPT ![w][i] = NoRt]
          /\ UNCHANGED <<wtask, wref, toCoord>>
     ELSE LET r == RunLoop([rts[w][i] EXCEPT !.current = @ + 1], w) IN
          /\ rts' = [rts EXCEPT ![w][i] = r.rt]
          /\ wtask' = IF r.done THEN [wtask EXCEPT ![w] = None] ELSE wtask
          /\ wref' = IF r.done THEN [wref EXCEPT ![w] = 0] ELSE wref
          /\ toCoord' = [toCoord EXCEPT ![w] = Send(w, r.out)]
  /\ QOk(toCoord')
  /\ UNCHANGED <<coordVars, conn, toWorker>>

\* The worker's socket connects: it registers (registerWithCoordinator).
Connect(w) ==
  /\ ~conn[w]
  /\ conn' = [conn EXCEPT ![w] = TRUE]
  /\ toCoord' = [toCoord EXCEPT ![w] = <<Msg("register", None, NoCp, None)>>]
  /\ UNCHANGED <<coordVars, toWorker, wtask, wref, rts>>

\* ---------------------------------------------------------- code registry
\* CodeRegistry.registerBundle(name, code)
RegisterBundle(name, code) ==
  /\ nbundle < MaxBundles
  /\ nbundle' = nbundle + 1
  /\ LET bundle == createCodeBundle(generateId(nbundle + 1), name, code)
     IN bundles' = [bundles EXCEPT ![bundle.id] = bundle, ![name] = bundle]
  /\ UNCHANGED <<nodeOrder, nodes, tasks, taskOrder, pending, migs, nmig, next,
                 nfail, history, latest, stats, sock, events, replies, conn,
                 toWorker, toCoord, wtask, wref, rts>>

\* CodeRegistry.removeBundle(idOrName)
RemoveBundle(idOrName) ==
  /\ LET bundle == bundles[idOrName]
     IN bundles' = IF bundle = NoBundle THEN bundles
                   ELSE [bundles EXCEPT ![bundle.id] = NoBundle,
                                        ![bundle.name] = NoBundle]
  /\ UNCHANGED <<nodeOrder, nodes, tasks, taskOrder, pending, migs, nmig, next,
                 nfail, history, latest, nbundle, stats, sock, events, replies, conn,
                 toWorker, toCoord, wtask, wref, rts>>

\* The bundles an import may bring: made by another registry (their
\* checksum fits their code) or altered on the way.
ImportedBundles ==
  {[id |-> i, name |-> n, code |-> c, checksum |-> generateChecksum(k)] :
     i \in ImportIds, n \in BundleNames, c \in RegistryCodes, k \in RegistryCodes}

\* data.bundles of an import: at most one bundle.
ImportedData == {<<>>} \cup {<<b>> : b \in ImportedBundles}

\* The checkpoint lists an import may bring for a task.
ImportedLists ==
  {<<>>} \cup {<<createCheckpoint(t, k, TotalSteps, k, "ext")>> :
                 t \in Jobs, k \in 1..TotalSteps}

\* The loop of import over data.bundles from position i on.
RECURSIVE importBundles(_, _, _)
importBundles(map, bs, i) ==
  IF i > Len(bs) THEN map
  ELSE importBundles([map EXCEPT ![bs[i].id] = bs[i], ![bs[i].name] = bs[i]],
                     bs, i + 1)

\* CodeRegistry.import(data): data.bundles is bs, data.checkpoints has the
\* list cps[t] for every task t in its keys ts.
Import(bs, ts, cps) ==
  /\ bundles' = importBundles(bundles, bs, 1)
  /\ history' = [t \in TaskIds |-> IF t \in ts THEN cps[t] ELSE history[t]]
  /\ latest' = [t \in TaskIds |->
                  IF t \in ts /\ cps[t] # <<>> THEN cps[t][Len(cps[t])]
                  ELSE latest[t]]
  /\ UNCHANGED <<nodeOrder, nodes, tasks, taskOrder, pending, migs, nmig, next,
                 nfail, nbundle, stats, sock, events, replies, conn, toWorker, toCoord,
                 wtask, wref, rts>>

\* CodeRegistry.saveCheckpoint of a checkpoint of step k of task t.
SaveCheckpoint(t, k) ==
  /\ Len(history[t]) < MaxHist
  /\ LET cp == createCheckpoint(t, k, TotalSteps, k, "ext")
     IN /\ history' = [history EXCEPT ![t] = Append(@, cp)]
        /\ latest' = [latest EXCEPT ![t] = cp]
  /\ UNCHANGED <<nodeOrder, nodes, tasks, taskOrder, pending, migs, nmig, next,
                 nfail, bundles, nbundle, stats, sock, events, replies, conn,
                 toWorker, toCoord, wtask, wref, rts>>

\* CodeRegistry.clearCheckpoints(taskId)
ClearCheckpoints(t) ==
  /\ history' = [history EXCEPT ![t] = <<>>]
  /\ latest' = [latest EXCEPT ![t] = NoCp]
  /\ UNCHANGED <<nodeOrder, nodes, tasks, taskOrder, pending, migs, nmig, next,
                 nfail, bundles, nbundle, stats, sock, events, replies, conn,
                 toWorker, toCoord, wtask, wref, rts>>

\* CodeRegistry.clearAllCheckpoints
ClearAllCheckpoints ==
  /\ history' = [t \in TaskIds |-> <<>>]
  /\ latest' = [t \in TaskIds |-> NoCp]
  /\ UNCHANGED <<nodeOrder, nodes, tasks, taskOrder, pending, migs, nmig, next,
                 nfail, bundles, nbundle, stats, sock, events, replies, conn,
                 toWorker, toCoord, wtask, wref, rts>>

\* data.checkpoints of an import: per task, no list entry of its own, an
\* empty list or a list of one checkpoint of that task.
ImportedCheckpoints ==
  {cps \in [TaskIds -> {<<>>} \cup {<<createCheckpoint(t, k, TotalSteps, k, "ext")>> :
                                      t \in TaskIds, k \in 1..TotalSteps}] :
     \A t \in TaskIds : \A i \in 1..Len(cps[t]) : cps[t][i].taskId = t}

\* ------------------------------------------------------------ behaviour
\* Everything that can happen: workers, clients, timers and node failures.
Next ==
  \/ \E w \in Pool : Connect(w)
  \/ \E w \in Pool : Disconnect(w)
  \/ \E w \in Pool : Takeover(w)
  \/ \E w \in Pool : OldDisconnect(w)
  \/ \E w \in Pool : NodeRegister(w)
  \/ \E w \in Pool : Heartbeat(w)
  \/ \E w \in Pool : PingExpires(w)
  \/ Sweep
  \/ \E w \in Pool : StatusUpdate(w)
  \/ \E t \in Jobs, ty \in MigTypes, code \in CustomCodes \cup {NoCode} :
       TaskSubmit(t, ty, code)
  \/ \E w \in Pool : TaskComplete(w)
  \/ \E w \in Pool : TaskError(w)
  \/ \E n \in Pool, hot \in BOOLEAN : NodeStats(n, hot)
  \/ \E name \in BundleNames, code \in RegistryCodes : RegisterBundle(name, code)
  \/ \E key \in BundleKeys : RemoveBundle(key)
  \/ \E bs \in ImportedData, ts \in SUBSET Jobs,
        cps \in [Jobs -> ImportedLists] : Import(bs, ts, cps)
  \/ \E t \in Jobs, k \in 1..TotalSteps : SaveCheckpoint(t, k)
  \/ \E t \in Jobs : ClearCheckpoints(t)
  \/ ClearAllCheckpoints
  \/ \E t \in Jobs, s \in Pool, g \in Pool, ty \in MigTypes :
       MigrationRequest(t, s, g, ty)
  \/ \E w \in Pool : CheckpointSaved(w)
  \/ \E t \in Jobs, k \in 1..TotalSteps, kind \in CheckpointKinds :
       ExternalCheckpoint(t, k, kind)
  \/ \E m \in MigIds : CheckpointTimeout(m)
  \/ \E m \in MigIds : MigrationDelay(m)
  \/ \E w \in Pool : WorkerAssign(w)
  \/ \E w \in Pool : WorkerPause(w)
  \/ \E w \in Pool, i \in RtIds : WorkerWake(w, i)

\* The system without node failures, its checkpoints coming from the
\* workers only: tasks and migration requests of both mobility types.
NextStable ==
  \/ \E w \in Pool : Connect(w)
  \/ \E w \in Pool : NodeRegister(w)
  \/ \E w \in Pool : StatusUpdate(w)
  \/ \E t \in Jobs, ty \in MigTypes : TaskSubmit(t, ty, NoCode)
  \/ \E w \in Pool : TaskComplete(w)
  \/ \E t \in Jobs, s \in Pool, g \in Pool, ty \in MigTypes :
       MigrationRequest(t, s, g, ty)
  \/ \E w \in Pool : CheckpointSaved(w)
  \/ \E m \in MigIds : CheckpointTimeout(m)
  \/ \E m \in MigIds : MigrationDelay(m)
  \/ \E w \in Pool : WorkerAssign(w)
  \/ \E w \in Pool : WorkerPause(w)
  \/ \E w \in Pool, i \in RtIds : WorkerWake(w, i)

\* Strong tasks and strong migrations without node failures, with other
\* clients that send checkpoint:saved on their own.
NextClients ==
  \/ \E w \in Pool : Connect(w)
  \/ \E w \in Pool : NodeRegister(w)
  \/ \E w \in Pool : StatusUpdate(w)
  \/ \E t \in Jobs : TaskSubmit(t, "strong", NoCode)
  \/ \E w \in Pool : TaskComplete(w)
  \/ \E t \in Jobs, s \in Pool, g \in Pool :
       MigrationRequest(t, s, g, "strong")
  \/ \E w \in Pool : CheckpointSaved(w)
  \/ \E t \in Jobs, k \in 1..TotalSteps, kind \in CheckpointKinds :
       ExternalCheckpoint(t, k, kind)
  \/ \E m \in MigIds : CheckpointTimeout(m)
  \/ \E m \in MigIds : MigrationDelay(m)
  \/ \E w \in Pool : WorkerAssign(w)
  \/ \E w \in Pool : WorkerPause(w)
  \/ \E w \in Pool, i \in RtIds : WorkerWake(w, i)

\* Node failures and their recovery, without migrations: workers connect,
\* drop their connection or miss their heartbeats while tasks run.
NextRecovery ==
  \/ \E w \in Pool : Connect(w)
  \/ \E w \in Pool : Disconnect(w)
  \/ \E w \in Pool : NodeRegister(w)
  \/ \E w \in Pool : Heartbeat(w)
  \/ \E w \in Pool : PingExpires(w)
  \/ Sweep
  \/ \E w \in Pool : StatusUpdate(w)
  \/ \E t \in Jobs, ty \in MigTypes : TaskSubmit(t, ty, NoCode)
  \/ \E w \in Pool : TaskComplete(w)
  \/ \E w \in Pool : CheckpointSaved(w)
  \/ \E w \in Pool : WorkerAssign(w)
  \/ \E w \in Pool, i \in RtIds : WorkerWake(w, i)

\* Clients submit tasks with or without custom code to workers that stay
\* connected; nothing migrates.
NextSubmit ==
  \/ \E w \in Pool : Connect(w)
  \/ \E w \in Pool : NodeRegister(w)
  \/ \E w \in Pool : StatusUpdate(w)
  \/ \E t \in Jobs, ty \in MigTypes, code \in CustomCodes \cup {NoCode} :
       TaskSubmit(t, ty, code)
  \/ \E w \in Pool : TaskComplete(w)
  \/ \E w \in Pool : TaskError(w)
  \/ \E w \in Pool : CheckpointSaved(w)
  \/ \E w \in Pool : WorkerAssign(w)
  \/ \E w \in Pool, i \in RtIds : WorkerWake(w, i)

\* The code registry on its own: its public operations in any order.
NextRegistry ==
  \/ \E name \in BundleNames, code \in RegistryCodes : RegisterBundle(name, code)
  \/ \E key \in BundleKeys : RemoveBundle(key)
  \/ \E bs \in ImportedData, ts \in SUBSET Jobs,
        cps \in [Jobs -> ImportedLists] : Import(bs, ts, cps)

\* One weak migration of a weak task and one connection that drops, at any
\* moment of the transaction.
NextFailover ==
  \/ \E w \in Pool : Connect(w)
  \/ \E w \in Pool : nfail = 0 /\ Disconnect(w)
  \/ \E w \in Pool : NodeRegister(w)
  \/ \E w \in Pool : StatusUpdate(w)
  \/ \E t \in Jobs : TaskSubmit(t, "weak", NoCode)
  \/ \E w \in Pool : TaskComplete(w)
  \/ \E t \in Jobs, s \in Pool, g \in Pool :
       nmig = 0 /\ MigrationRequest(t, s, g, "weak")
  \/ \E m \in MigIds : MigrationDelay(m)
  \/ \E w \in Pool : WorkerAssign(w)
  \/ \E w \in Pool : WorkerPause(w)
  \/ \E w \in Pool, i \in RtIds : WorkerWake(w, i)

\* Strong tasks on workers that report their load, without node failures
\* and without migration requests of clients: every migration is one that
\* checkAutoMigration started.
NextAuto ==
  \/ \E w \in Pool : Connect(w)
  \/ \E w \in Pool : NodeRegister(w)
  \/ \E w \in Pool : StatusUpdate(w)
  \/ \E t \in Jobs : TaskSubmit(t, "strong", NoCode)
  \/ \E w \in Pool : TaskComplete(w)
  \/ \E n \in Pool, hot \in BOOLEAN : NodeStats(n, hot)
  \/ \E w \in Pool : CheckpointSaved(w)
  \/ \E m \in MigIds : CheckpointTimeout(m)
  \/ \E m \in MigIds : MigrationDelay(m)
  \/ \E w \in Pool : WorkerAssign(w)
  \/ \E w \in Pool : WorkerPause(w)
  \/ \E w \in Pool, i \in RtIds : WorkerWake(w, i)

\* Weak tasks and weak migrations among three workers, without node
\* failures; a migration is requested for a running task, from the node
\* that runs it to another node.
NextChain ==
  \/ \E w \in Nodes : Connect(w)
  \/ \E w \in Nodes : NodeRegister(w)
  \/ \E w \in Nodes : StatusUpdate(w)
  \/ \E t \in Jobs : TaskSubmit(t, "weak", NoCode)
  \/ \E w \in Nodes : TaskComplete(w)
  \/ \E t \in Jobs, s \in Nodes, g \in Nodes :
       /\ s # g
       /\ tasks[t].currentNodeId = s
       /\ tasks[t].status = "running"
       /\ MigrationRequest(t, s, g, "weak")
  \/ \E m \in MigIds : MigrationDelay(m)
  \/ \E w \in Nodes : WorkerAssign(w)
  \/ \E w \in Nodes : WorkerPause(w)
  \/ \E w \in Nodes, i \in RtIds : WorkerWake(w, i)

\* Two weak tasks on two workers, without node failures; a migration is
\* requested for a running task, from the node that runs it to another
\* node that is online.
NextPair ==
  \/ \E w \in Pool : Connect(w)
  \/ \E w \in Pool : NodeRegister(w)
  \/ \E w \in Pool : StatusUpdate(w)
  \/ \E t \in TaskIds : TaskSubmit(t, "weak", NoCode)
  \/ \E w \in Pool : TaskComplete(w)
  \/ \E t \in TaskIds, s \in Pool, g \in Pool :
       /\ s # g
       /\ tasks[t].currentNodeId = s
       /\ tasks[t].status = "running"
       /\ InMap(nodeOrder, g)
       /\ nodes[g].status = "online"
       /\ MigrationRequest(t, s, g, "weak")
  \/ \E m \in MigIds : MigrationDelay(m)
  \/ \E w \in Pool : WorkerAssign(w)
  \/ \E w \in Pool : WorkerPause(w)
  \/ \E w \in Pool, i \in RtIds : WorkerWake(w, i)

\* Strong tasks and strong migrations without node failures; a migration
\* is requested for a running or migrating task, from the node the task is
\* bound to, to another node.
NextWait ==
  \/ \E w \in Pool : Connect(w)
  \/ \E w \in Pool : NodeRegister(w)
  \/ \E w \in Pool : StatusUpdate(w)
  \/ \E t \in Jobs : TaskSubmit(t, "strong", NoCode)
  \/ \E w \in Pool : TaskComplete(w)
  \/ \E t \in Jobs, s \in Pool, g \in Pool :
       /\ s # g
       /\ tasks[t].currentNodeId = s
       /\ tasks[t].status \in {"running", "migrating"}
       /\ MigrationRequest(t, s, g, "strong")
  \/ \E w \in Pool : CheckpointSaved(w)
  \/ \E m \in MigIds : CheckpointTimeout(m)
  \/ \E m \in MigIds : MigrationDelay(m)
  \/ \E w \in Pool : WorkerAssign(w)
  \/ \E w \in Pool : WorkerPause(w)
  \/ \E w \in Pool, i \in RtIds : WorkerWake(w, i)

\* The event loops run: a message that was received is handled, a timer
\* that was set fires, a runtime that sleeps wakes up.
Fairness ==
  /\ WF_vars(\E w \in Pool : NodeRegister(w))
  /\ WF_vars(\E w \in Pool : StatusUpdate(w))
  /\ WF_vars(\E w \in Pool : TaskComplete(w))
  /\ WF_vars(\E w \in Pool : CheckpointSaved(w))
  /\ WF_vars(\E m \in MigIds : CheckpointTimeout(m))
  /\ WF_vars(\E m \in MigIds : MigrationDelay(m))
  /\ WF_vars(\E w \in Pool : WorkerAssign(w))
  /\ WF_vars(\E w \in Pool : WorkerPause(w))
  /\ WF_vars(\E w \in Pool, i \in RtIds : WorkerWake(w, i))

\* Node failures and their recovery as in NextRecovery, with workers whose
\* client reconnects on a new socket before the previous one has closed.
NextTakeover ==
  \/ \E w \in Pool : Connect(w)
  \/ \E w \in Pool : Disconnect(w)
  \/ \E w \in Pool : Takeover(w)
  \/ \E w \in Pool : OldDisconnect(w)
  \/ \E w \in Pool : NodeRegister(w)
  \/ \E w \in Pool : StatusUpdate(w)
  \/ \E t \in Jobs, ty \in MigTypes : TaskSubmit(t, ty, NoCode)
  \/ \E w \in Pool : TaskComplete(w)
  \/ \E w \in Pool : CheckpointSaved(w)
  \/ \E w \in Pool : WorkerAssign(w)
  \/ \E w \in Pool, i \in RtIds : WorkerWake(w, i)

\* The checkpoint store of the code registry on its own: its public
\* operations in any order, for two tasks.
NextStore ==
  \/ \E t \in TaskIds, k \in 1..TotalSteps : SaveCheckpoint(t, k)
  \/ \E t \in TaskIds : ClearCheckpoints(t)
  \/ ClearAllCheckpoints
  \/ \E bs \in ImportedData, ts \in SUBSET TaskIds, cps \in ImportedCheckpoints :
       Import(bs, ts, cps)

\* The bundle store of the code registry on its own: registerBundle and
\* removeBundle in any order.
NextBundles ==
  \/ \E name \in BundleNames, code \in RegistryCodes : RegisterBundle(name, code)
  \/ \E key \in BundleKeys : RemoveBundle(key)

Spec == Init /\ [][NextStable]_vars

SpecBundles == Init /\ [][NextBundles]_vars

SpecStore == Init /\ [][NextStore]_vars

SpecTakeover == Init /\ [][NextTakeover]_vars

SpecWait == Init /\ [][NextWait]_vars /\ Fairness

SpecPair == Init /\ [][NextPair]_vars

SpecChain == Init /\ [][NextChain]_vars

SpecAuto == Init /\ [][NextAuto]_vars

SpecFailover == Init /\ [][NextFailover]_vars

SpecSubmit == Init /\ [][NextSubmit]_vars

SpecRegistry == Init /\ [][NextRegistry]_vars

SpecRecovery == Init /\ [][NextRecovery]_vars

SpecClients == Init /\ [][NextClients]_vars

SpecFailure == Init /\ [][Next]_vars

\* ------------------------------------------------------------ properties
\* The position of the first x in a transaction's trace (0: not there).
Pos(tr, x) ==
  IF \E i \in 1..Len(tr) : tr[i] = x
  THEN CHOOSE i \in 1..Len(tr) : tr[i] = x /\ \A j \in 1..(i - 1) : tr[j] # x
  ELSE 0

\* The migration:request handled in this step, if any (0: none).
Requested == IF nmig' # nmig THEN nmig' ELSE 0

\* Transaction m was requested as PREPARE wants it: for a task that was
\* running (or already migrating), from the node that owned it, to another
\* node.
Sound(ms, m) ==
  /\ ms[m].owned
  /\ ms[m].src # ms[m].tgt
  /\ ms[m].before \in {"running", "migrating"}

\* Every transaction requested for task t so far was.
AllSound(ms, t) == \A m \in MigIds : ms[m].task = t => Sound(ms, m)

\* C1: for every task t, at most one worker has t as its current task at
\* any instant (stated for the instants at which no message to a worker is
\* in flight and every migration of t was soundly requested).
C1_SingleExecutor ==
  \A t \in TaskIds :
    (AllSound(migs, t) /\ \A w \in Nodes : toWorker[w] = <<>>)
      => Cardinality({w \in Nodes : wtask[w] = t}) <= 1

\* C2: a task whose status is 'migrating' has exactly one outstanding
\* (neither committed nor aborted) migration transaction.
C2_OneOutstanding ==
  \A t \in TaskIds :
    (tasks[t].status = "migrating" /\ AllSound(migs, t))
      => Cardinality(InFlight(migs, t)) = 1

\* C3: a migration:request handled while another transaction of the same
\* task is in flight does not get past PREPARE.
C3_SecondRequestStops ==
  \A m \in MigIds :
    (migs[m].overlap /\ AllSound(migs, migs[m].task))
      => migs[m].pc \notin {"await", "delay", "done"}

\* C4: a migration:request for a task that is already 'migrating' sends no
\* task:pause and leaves the task record, the node statuses and the
\* pending-checkpoint waiters unchanged.
C4_RejectedWithoutEffect ==
  [][(/\ Requested # 0
      /\ tasks[migs'[Requested].task].status = "migrating"
      /\ AllSound(migs', migs'[Requested].task))
       => /\ toWorker' = toWorker
          /\ tasks' = tasks
          /\ nodes' = nodes
          /\ pending' = pending]_vars

\* C5: a migration:request whose source is not the task's current node, or
\* whose source and target are the same node, changes neither the task's
\* status nor a node status and sends no task:pause.
C5_ValidatesBeforeActing ==
  [][(/\ Requested # 0
      /\ tasks[migs'[Requested].task].status = "running"
      /\ \/ migs'[Requested].src # tasks[migs'[Requested].task].currentNodeId
         \/ migs'[Requested].src = migs'[Requested].tgt)
       => /\ tasks'[migs'[Requested].task].status
               = tasks[migs'[Requested].task].status
          /\ nodes' = nodes
          /\ toWorker' = toWorker]_vars

C7_WeakAfterAck ==
  \A m \in MigIds :
    (/\ migs[m].type = "weak"
     /\ Sound(migs, m)
     /\ Pos(migs[m].trace, "assign") # 0)
      => /\ Pos(migs[m].trace, "ack") # 0
         /\ Pos(migs[m].trace, "ack") < Pos(migs[m].trace, "assign")

\* C8: the checkpoint that resolved a migration's waiter is of the
\* migration's task, carries a checksum, and the checksum is that of its
\* content.
C8_ResolvedByValidChecksum ==
  \A m \in MigIds :
    (migs[m].cp # NoCp /\ Sound(migs, m))
      => /\ migs[m].cp.taskId = migs[m].task
         /\ migs[m].cp.checksum # NoChecksum
         /\ ~checksumMismatch(migs[m].cp)

\* C9: when a strong migration of a running task, requested from the node
\* that runs it, aborts while it waits for the checkpoint, the task is
\* 'running' on the source again.
C9_AbortRestoresTask ==
  [][\A m \in MigIds :
       (/\ migs[m].pc = "await"
        /\ migs'[m].pc = "aborted"
        /\ migs[m].before = "running"
        /\ Sound(migs, m)
        /\ tasks[migs[m].task].status = "migrating"
        /\ tasks[migs[m].task].currentNodeId = migs[m].src)
         => /\ tasks'[migs[m].task].status = "running"
            /\ tasks'[migs[m].task].currentNodeId = migs[m].src]_vars

\* C10: once a migration transaction has aborted, a 'migration_failed'
\* event of its task has been broadcast.
C10_AbortIsBroadcast ==
  \A m \in MigIds :
    (migs[m].pc = "aborted" /\ Sound(migs, m))
      => <<"migration_failed", migs[m].task>> \in events

\* C11: a strong transaction that waits for its checkpoint can still leave
\* AWAIT_SNAPSHOT: its timer is pending or it is the registered waiter, so
\* that the timer or a checkpoint ends the wait.
C11_AwaitCanEnd ==
  \A m \in MigIds :
    (migs[m].pc = "await" /\ AllSound(migs, migs[m].task))
      => (migs[m].timer \/ pending[migs[m].task] = m)

\* Worker w handles a task:pause for its current task in this step.
PausesCurrent(w) ==
  /\ conn[w]
  /\ Head1(toWorker[w]).type = "pause"
  /\ toWorker' = [toWorker EXCEPT ![w] = Tail(@)]
  /\ wref[w] # 0
  /\ wtask[w] = Head1(toWorker[w]).task

\* C12: a worker that handles task:pause with requireSnapshot for its
\* current task, whose runtime has a latest checkpoint, emits that
\* checkpoint as checkpoint:saved.
C12_PauseEmitsSnapshot ==
  [][\A w \in Nodes :
       (/\ PausesCurrent(w)
        /\ Head1(toWorker[w]).arg = TRUE
        /\ rts[w][wref[w]].latestCheckpoint # NoCp)
         => \E i \in (Len(toCoord[w]) + 1)..Len(toCoord'[w]) :
              /\ toCoord'[w][i].type = "checkpoint"
              /\ toCoord'[w][i].cp = rts[w][wref[w]].latestCheckpoint]_vars

\* C13: when the only migration of a task is a committed strong one and the
\* source's paused runtime is still there, the checkpoint the migration
\* carries has the step of the last checkpoint that runtime saved.
C13_CarriesLastCheckpoint ==
  \A m \in MigIds :
    (/\ migs[m].type = "strong"
     /\ migs[m].pc = "done"
     /\ Sound(migs, m)
     /\ nmig = 1
     /\ wref[migs[m].src] # 0
     /\ rts[migs[m].src][wref[migs[m].src]].active
     /\ rts[migs[m].src][wref[migs[m].src]].paused
     /\ rts[migs[m].src][wref[migs[m].src]].taskId = migs[m].task)
      => migs[m].cp.currentStep
           = rts[migs[m].src][wref[migs[m].src]].latestCheckpoint.currentStep

\* C14: a worker that handles task:assign with a checkpoint of a step
\* before the last starts its runtime at step checkpoint.currentStep + 1.
C14_ResumesAfterCheckpoint ==
  [][\A w \in Nodes :
       (/\ conn[w]
        /\ Head1(toWorker[w]).type = "assign"
        /\ toWorker' = [toWorker EXCEPT ![w] = Tail(@)]
        /\ Head1(toWorker[w]).cp # NoCp
        /\ Head1(toWorker[w]).cp.currentStep < TotalSteps)
         => \E i \in RtIds :
              /\ ~rts[w][i].active
              /\ rts'[w][i].active
              /\ rts'[w][i].current = Head1(toWorker[w]).cp.currentStep + 1]_vars

\* C15: the checkpoints stored for a strong task are in order of step.
C15_HistoryMonotonic ==
  \A t \in TaskIds :
    (InMap(taskOrder, t) /\ tasks[t].migrationType = "strong")
      => \A i \in 1..Len(history[t]) :
           i > 1 => history[t][i].currentStep >= history[t][i - 1].currentStep

\* C16: no checkpoint whose declared checksum differs from the checksum
\* of its content is in the registry's history or is a latest checkpoint.
C16_OnlyValidatedPersisted ==
  \A t \in TaskIds :
    /\ \A i \in 1..Len(history[t]) : ~checksumMismatch(history[t][i])
    /\ ~checksumMismatch(latest[t])

\* The coordinator handles worker w's checkpoint:saved in this step.
HandlesCheckpointOf(w) ==
  /\ conn[w]
  /\ Head1(toCoord[w]).type = "checkpoint"
  /\ toCoord' = [toCoord EXCEPT ![w] = Tail(@)]

\* Checkpoint cp was persisted for task t and broadcast, and nothing else
\* of the coordinator's waiters, tasks and nodes changed.
PersistedOnly(t, cp) ==
  /\ history'[t] = Append(history[t], cp)
  /\ latest'[t] = cp
  /\ <<"checkpoint:saved", t>> \in events'
  /\ pending' = pending
  /\ tasks' = tasks
  /\ nodes' = nodes

\* C17: a checkpoint:saved, of a worker or of another client, for a task
\* with no pending waiter is appended to the history, made latest and
\* broadcast; it creates no waiter and changes no task or node.
C17_PersistedWithoutWaiter ==
  [][/\ \A w \in Nodes :
          (/\ HandlesCheckpointOf(w)
           /\ pending[Head1(toCoord[w]).cp.taskId] = 0)
            => PersistedOnly(Head1(toCoord[w]).cp.taskId, Head1(toCoord[w]).cp)
     /\ next' # next
          => \E t \in TaskIds :
               /\ Len(history'[t]) = Len(history[t]) + 1
               /\ pending[t] = 0
                    => PersistedOnly(t, history'[t][Len(history'[t])])]_vars

\* Checkpoints were persisted and broadcast although no migration was
\* ever requested.
C17_Witness ==
  /\ nmig = 0
  /\ \E t \in TaskIds :
       /\ Len(history[t]) = MaxHist
       /\ latest[t] = history[t][MaxHist]
       /\ <<"checkpoint:saved", t>> \in events

\* Node f fails in this step: its connection closes and it is deleted, or
\* the heartbeat sweep marks it offline.
Fails(f) ==
  /\ InMap(nodeOrder, f)
  /\ \/ ~InMap(nodeOrder', f)
     \/ /\ nodes[f].stale
        /\ nodes[f].status # "offline"
        /\ nodes'[f].status = "offline"

\* Task t is one that the recovery of node f has to take care of.
Affected(t, f) ==
  /\ InMap(taskOrder, t)
  /\ tasks[t].currentNodeId = f
  /\ tasks[t].status \in {"running", "migrating"}

\* The task:assign messages for task t that this step sends to worker w.
NewAssigns(t, w) ==
  {i \in (Len(toWorker[w]) + 1)..Len(toWorker'[w]) :
     toWorker'[w][i].type = "assign" /\ toWorker'[w][i].task = t}

\* C18: no task that is running, migrating or failed has a currentNodeId
\* that names a node which is offline or no longer in the node map.
C18_NoTaskOnOfflineNode ==
  \A t \in TaskIds :
    (/\ InMap(taskOrder, t)
     /\ tasks[t].status \in {"running", "migrating", "failed"}
     /\ tasks[t].currentNodeId # None)
      => /\ InMap(nodeOrder, tasks[t].currentNodeId)
         /\ nodes[tasks[t].currentNodeId].status # "offline"

NoWorkerBut(f) ==
  \A n \in Nodes \ {f} : InMap(nodeOrder, n) => nodes[n].status # "online"

\* C20: when a node fails and no worker is available, each of its running
\* or migrating tasks becomes 'failed', a 'migration_failed' event of the
\* task is emitted and no task:assign is sent for it.
C20_NoWorkerFailsTask ==
  [][\A t \in TaskIds, f \in Nodes :
       (Fails(f) /\ Affected(t, f) /\ NoWorkerBut(f))
         => /\ tasks'[t].status = "failed"
            /\ <<"migration_failed", t>> \in events'
            /\ \A n \in Nodes \ {f} : NewAssigns(t, n) = {}]_vars

\* A task failed because its node failed with no worker to take it.
C20_Witness ==
  /\ nfail > 0
  /\ \E t \in TaskIds :
       /\ tasks[t].status = "failed"
       /\ <<"migration_failed", t>> \in events
       /\ <<"task_recovered", t>> \notin events

\* The step is the heartbeat sweep and it finds node f expired: the node
\* table changes while nothing is received, submitted or counted as a new
\* failure, no transaction moves and no lastPing changes.
Swept(f) ==
  /\ InMap(nodeOrder, f)
  /\ nodes[f].stale
  /\ nodes[f].status # "offline"
  /\ nodes' # nodes
  /\ \A n \in Nodes : nodes'[n].stale = nodes[n].stale
  /\ UNCHANGED <<nodeOrder, taskOrder, nfail, migs, toCoord>>

\* The step handles the disconnect of the registered node f.
Dropped(f) == InMap(nodeOrder, f) /\ ~InMap(nodeOrder', f)

\* C21: when node f fails (its connection drops or the sweep marks it
\* offline), the recovery that runs for it sends no task:assign of an
\* affected task to f, leaves no affected task running on f, and does not
\* mark f busy; the recovery is over before the coordinator handles any
\* later node:register or node:status:update of f.
C21_NeverReboundToFailed ==
  [][\A f \in Nodes, t \in TaskIds :
       ((Dropped(f) \/ Swept(f)) /\ Affected(t, f))
         => /\ NewAssigns(t, f) = {}
            /\ tasks'[t].status = "running" => tasks'[t].currentNodeId # f
            /\ nodes'[f].status = "offline"]_vars

\* A task recovered onto w while the silent node f is still in the node
\* table, offline.
C21_Witness ==
  \E f \in Nodes, w \in Nodes, t \in TaskIds :
    /\ f # w
    /\ InMap(nodeOrder, f)
    /\ nodes[f].stale
    /\ nodes[f].status = "offline"
    /\ <<"task_recovered", t>> \in events
    /\ tasks[t].status = "running"
    /\ tasks[t].currentNodeId = w

TakesAssign(w) ==
  /\ conn[w]
  /\ conn'[w]
  /\ Head1(toWorker[w]).type = "assign"
  /\ toWorker'[w] = Tail(toWorker[w])

\* Worker w is executing a task: its current runtime is active, not paused.
Executing(w) ==
  /\ wref[w] # 0
  /\ wtask[w] # None
  /\ rts[w][wref[w]].active
  /\ ~rts[w][wref[w]].paused

\* The messages worker w sends in this step.
Sent(w) ==
  {toCoord'[w][i] : i \in (Len(toCoord[w]) + 1)..Len(toCoord'[w])}

\* C23: a worker that handles task:assign while it is executing a task
\* keeps its current task and runtime, starts no other runtime and reports
\* task:error.
C23_BusyWorkerRefuses ==
  [][\A w \in Nodes :
       (TakesAssign(w) /\ Executing(w))
         => /\ wtask'[w] = wtask[w]
            /\ wref'[w] = wref[w]
            /\ rts'[w] = rts[w]
            /\ \E msg \in Sent(w) : msg.type = "error"]_vars

\* C24: a node that gets a submitted task is an online worker when the
\* task is submitted, and the target of a migration the coordinator goes
\* on with (requested for a running task from the node that owns it) is an
\* online worker other than the source when the request is handled.
C24_SelectsOnlineWorker ==
  [][/\ \A t \in TaskIds, w \in Nodes :
          (~InMap(taskOrder, t) /\ NewAssigns(t, w) # {})
            => Role(w) = "worker" /\ nodes[w].status = "online"
     /\ (/\ Requested # 0
         /\ migs'[Requested].pc \in {"await", "delay"}
         /\ migs'[Requested].owned
         /\ migs'[Requested].before = "running")
          => /\ Role(migs'[Requested].tgt) = "worker"
             /\ nodes[migs'[Requested].tgt].status = "online"
             /\ migs'[Requested].tgt # migs'[Requested].src]_vars

\* C25: once a task's status is completed or failed it never changes, and
\* no task:assign for the task is sent any more (stated for tasks whose
\* migrations were all soundly requested).
C25_TerminalStatus ==
  [][\A t \in TaskIds :
       (/\ InMap(taskOrder, t)
        /\ tasks[t].status \in {"completed", "failed"}
        /\ AllSound(migs', t))
         => /\ tasks'[t].status = tasks[t].status
            /\ \A w \in Nodes : NewAssigns(t, w) = {}]_vars

\* C26: every bundle getBundle returns for an id or a name has the
\* checksum of its code.
C26_BundlesVerify ==
  \A key \in BundleKeys :
    getBundle(key) # NoBundle => verifyCodeBundle(getBundle(key))

\* C27: a worker that handles a task:assign whose bundle's checksum is not
\* the checksum of its code starts no runtime for it, keeps its current
\* task and runtime and sends task:error.
C27_RefusesBadBundle ==
  [][\A w \in Nodes :
       (TakesAssign(w) /\ ~verifyCodeBundle(Head(toWorker[w]).bundle))
         => /\ wtask'[w] = wtask[w]
            /\ wref'[w] = wref[w]
            /\ rts'[w] = rts[w]
            /\ \E msg \in Sent(w) : msg.type = "error"]_vars

\* The coordinator takes a task:error of worker w off the connection in
\* this step.
GetsError(w) ==
  /\ conn[w]
  /\ conn'[w]
  /\ Head1(toCoord[w]).type = "error"
  /\ toCoord'[w] = Tail(toCoord[w])

\* C28: when the coordinator has received the task:error that a worker sent
\* because the task's function threw, the task's status is 'failed'.
C28_ErrorFailsTask ==
  [][\A w \in Nodes :
       GetsError(w) => tasks'[Head(toCoord[w]).task].status = "failed"]_vars

\* C29: a task:submit handled while no registered worker is online is
\* answered with task:error; the task is stored pending without a
\* currentNodeId, nothing is sent to any worker and no node changes.
C29_NoWorkerNoAssign ==
  [][\A t \in TaskIds :
       (/\ ~InMap(taskOrder, t)
        /\ InMap(taskOrder', t)
        /\ Available(nodeOrder, nodes) = {})
         => /\ <<"task:error", t>> \in replies'
            /\ <<"task:submitted", t>> \notin replies'
            /\ tasks'[t].status = "pending"
            /\ tasks'[t].currentNodeId = None
            /\ toWorker' = toWorker
            /\ nodes' = nodes]_vars

\* A task submitted while the only registered worker was marked offline.
C29_Witness ==
  \E t \in TaskIds, f \in Nodes :
    /\ nodeOrder = <<f>>
    /\ nodes[f].status = "offline"
    /\ InMap(taskOrder, t)
    /\ <<"task:error", t>> \in replies
    /\ tasks[t].status = "pending"

\* Transaction m commits in this step.
Commits(m) == migs[m].pc = "delay" /\ migs'[m].pc = "done"

\* The coordinator assigns task t to worker w in this step: a migration of
\* t to w commits (every migration of t having been soundly requested), or
\* (no migration committing) a task:assign of t is sent to w.
Assigned(t, w) ==
  IF \E m \in MigIds : Commits(m)
  THEN \E m \in MigIds :
         /\ Commits(m)
         /\ migs[m].task = t
         /\ migs[m].tgt = w
         /\ AllSound(migs, t)
  ELSE NewAssigns(t, w) # {}

\* C30: right after the coordinator assigned task t to worker w, t is
\* running with currentNodeId w and startedAt set, w is a busy node of the
\* node table and a task:assign of t has been sent to w.
C30_AssignmentBinds ==
  [][\A t \in TaskIds, w \in Nodes :
       Assigned(t, w)
         => /\ tasks'[t].status = "running"
            /\ tasks'[t].currentNodeId = w
            /\ tasks'[t].started
            /\ InMap(nodeOrder', w)
            /\ nodes'[w].status = "busy"
            /\ NewAssigns(t, w) # {}]_vars

\* The coordinator takes a task:complete of worker w off the connection in
\* this step.
GetsComplete(w) ==
  /\ conn[w]
  /\ conn'[w]
  /\ Head1(toCoord[w]).type = "complete"
  /\ toCoord'[w] = Tail(toCoord[w])

\* C31: a task:complete for task t sent by the node that owns t sets t
\* completed and that node online; sent by any other node it leaves t's
\* status and every node's status as they are (stated for tasks whose
\* migrations were all soundly requested).
C31_CompleteReleasesExecutor ==
  [][\A w \in Nodes :
       LET t == Head1(toCoord[w]).task IN
       (GetsComplete(w) /\ InMap(taskOrder, t) /\ AllSound(migs, t))
         => IF tasks[t].currentNodeId = w
            THEN /\ tasks'[t].status = "completed"
                 /\ nodes'[w].status = "online"
            ELSE /\ tasks'[t].status = tasks[t].status
                 /\ nodes' = nodes]_vars


\* ------------------------------------------------------------------ C32
\* The step in which checkAutoMigration of node n starts transaction m.
Triggers(n, m) ==
  /\ migs[m].pc = "idle"
  /\ migs'[m].pc # "idle"
  /\ migs'[m].auto = n

\* An automatic transaction of node n is suspended.
AutoInFlight(n) ==
  \E m \in MigIds : migs[m].auto = n /\ migs[m].pc \in {"await", "delay"}

Chain(m1, m2) ==
  /\ migs[m1].pc = "done"
  /\ migs[m1].type = "weak"
  /\ migs[m2].type = "weak"
  /\ migs[m2].task = migs[m1].task
  /\ migs[m2].src = migs[m1].tgt
  /\ migs[m2].tgt \notin {migs[m1].src, migs[m1].tgt}

\* C33: when the second of two consecutive weak migrations of a task (A to
\* B, then B to C) commits, the coordinator state is that of one weak
\* migration A to C: the task is running on C, assigned from the first step
\* with no checkpoint, C is busy, and A and B are online.
C33_WeakChainAsOne ==
  [][\A m1 \in MigIds, m2 \in MigIds :
       (Chain(m1, m2) /\ Commits(m2) /\ AllSound(migs, migs[m2].task))
         => LET t == migs[m2].task
                A == migs[m1].src
                B == migs[m2].src
                C == migs[m2].tgt
            IN /\ tasks'[t].status = "running"
               /\ tasks'[t].currentNodeId = C
               /\ NewAssigns(t, C) # {}
               /\ \A i \in NewAssigns(t, C) : toWorker'[C][i].cp = NoCp
               /\ nodes'[C].status = "busy"
               /\ nodes'[A].status = "online"
               /\ nodes'[B].status = "online"]_vars


\* ------------------------------------------------------------------ C34
\* Task t is active: submitted, bound to a node, and running or migrating.
Active(t) ==
  /\ InMap(taskOrder, t)
  /\ tasks[t].status \in {"running", "migrating"}
  /\ tasks[t].currentNodeId # None

\* C34: no node is the currentNodeId of two distinct tasks that are both
\* running or migrating.
C34_OneActiveTaskPerNode ==
  \A t \in TaskIds, u \in TaskIds :
    (t # u /\ Active(t) /\ Active(u))
      => tasks[t].currentNodeId # tasks[u].currentNodeId


\* ------------------------------------------------------------------ C35
\* C35: every handler that waitForCheckpoint suspended is resumed: its
\* promise resolves or rejects, whether or not a later waitForCheckpoint of
\* the same task replaced its entry in pendingCheckpoints.
C35_WaiterSettles ==
  \A m \in MigIds : (migs[m].pc = "await") ~> (migs[m].pc # "await")


\* ------------------------------------------------------------------ C36
\* C36: once a migration transaction has ended, by commit or by abort, the
\* status of its source in the node table eventually is 'online' or 'busy'
\* (stated for a transaction that was soundly requested and is the only
\* one so far).
C36_SourceLeavesMigrating ==
  \A m \in MigIds :
    (migs[m].pc \in {"done", "aborted"} /\ Sound(migs, m) /\ nmig = 1)
      ~> (/\ migs[m].src \in Nodes
          /\ nodes[migs[m].src].status \in {"online", "busy"})


\* ------------------------------------------------------------------ C37
\* C37: a migration commits only onto live nodes and a live binding.  At
\* the commit of a soundly requested transaction neither its source nor its
\* target has disconnected since the request, and the node the task is
\* bound to afterwards is in the node table and not offline.
C37_CommitsOntoLiveNodes ==
  [][\A m \in MigIds :
       (Commits(m) /\ Sound(migs, m))
         => LET t == migs[m].task IN
            /\ migs[m].srcLive
            /\ migs[m].tgtLive
            /\ InMap(nodeOrder', tasks'[t].currentNodeId)
            /\ nodes'[tasks'[t].currentNodeId].status # "offline"]_vars


\* ------------------------------------------------------------------ C38
\* The step in which the superseded socket of worker w closes.
OldCloses(w) == sock[w].old /\ ~sock'[w].old

\* C38: after a node has registered again on a new connection, the
\* disconnect of the connection it superseded neither removes the node's
\* entry nor starts a recovery: node table, tasks and the messages to the
\* workers are as they were.
C38_TakeoverSurvivesOldDisconnect ==
  [][\A w \in Nodes :
       OldCloses(w)
         => /\ nodeOrder' = nodeOrder
            /\ nodes' = nodes
            /\ tasks' = tasks
            /\ toWorker' = toWorker
            /\ events' = events]_vars

\* Worker w registered again on a new socket while a task was bound to it,
\* the superseded socket has closed since and no other connection has: w is
\* still in the node table and the task still runs on it.
C38_Witness ==
  \E w \in Nodes, t \in TaskIds :
    /\ sock[w].cur = 1
    /\ ~sock[w].old
    /\ nfail = 0
    /\ InMap(nodeOrder, w)
    /\ tasks[t].status = "running"
    /\ tasks[t].currentNodeId = w


\* ------------------------------------------------------------------ C39
\* C39: in the code registry getLatestCheckpoint(taskId) is the last
\* element of getCheckpointHistory(taskId), and it is undefined exactly
\* when that history is empty.
C39_LatestIsLastOfHistory ==
  \A t \in TaskIds :
    IF history[t] = <<>>
    THEN latest[t] = NoCp
    ELSE latest[t] = history[t][Len(history[t])]


\* ------------------------------------------------------------------ C40
\* The bundles that are registered: those found under their own id.
Registered(bs) == {bs[k] : k \in {j \in BundleKeys : bs[j] # NoBundle /\ bs[j].id = j}}

\* C40: removeBundle removes only the bundle its argument resolves to.  In
\* a step that removes bundle r, every other registered bundle is found
\* under its id as before and, if it was found under its name, under its
\* name as before; r is found neither under its id nor under its name.
C40_RemoveOnlyTheBundle ==
  [][\A r \in Registered(bundles) :
       (nbundle' = nbundle /\ bundles'[r.id] = NoBundle)
         => /\ bundles'[r.name] # r
            /\ \A b \in Registered(bundles) \ {r} :
                 /\ bundles'[b.id] = b
                 /\ bundles[b.name] = b => bundles'[b.name] = b]_vars
====
